---- MODULE Spec2Model ----
(***************************************************************************)
(* Model of the meeting-records viewer (src/vite.config.js): the record    *)
(* normaliser, the grouping/sorting engine, the filter engine and the      *)
(* load handlers of the App component.                                     *)
(*                                                                         *)
(* Representation.  A JavaScript string is a sequence of one-character     *)
(* strings, so that trim, split, toLowerCase and includes are computed.    *)
(* A cell read from a row is a JsVal: [def, s], def = FALSE for undefined. *)
(* A Raw Row is the sequence of its <<header, cell>> properties in         *)
(* insertion order (the order Object.keys yields).  Header names and error *)
(* messages are TLA+ strings.  A Date is [valid, time, year, month, date]; *)
(* time is counted in days since the epoch (an order-preserving scale of   *)
(* getTime()), month is zero-based as getMonth() returns it.               *)
(***************************************************************************)
EXTENDS Integers, Sequences, FiniteSets, TLC

VARIABLES csvUrl, rawRows, error, loading,
          projectFilter, studentFilter, dateFrom, dateTo, q,
          mounted, loads, lastParsed, lastEvent, seqState

vars == <<csvUrl, rawRows, error, loading,
          projectFilter, studentFilter, dateFrom, dateTo, q,
          mounted, loads, lastParsed, lastEvent, seqState>>

appState == <<csvUrl, rawRows, error, loading>>
filterState == <<projectFilter, studentFilter, dateFrom, dateTo, q>>
loadState == <<mounted, loads, lastParsed, lastEvent, seqState>>

(***************************************************************************)
(* Bounds of the model.                                                    *)
(***************************************************************************)
MaxLoads == 3
MaxRows == 3
MaxFilterRows == 2
MaxActionCols == 2

(***************************************************************************)
(* JavaScript values and string primitives.                                *)
(***************************************************************************)
Undefined == [def |-> FALSE, s |-> <<>>]
Str(s) == [def |-> TRUE, s |-> s]

\* truthiness of undefined-or-string: undefined and "" are falsy
Truthy(v) == v.def /\ v.s # <<>>

\* a || b
Or(a, b) == IF Truthy(a) THEN a ELSE b

\* String(v) of a defined string is the string itself
String(v) == v.s

\* Boolean(s) as used by filter(Boolean) on strings
Boolean(s) == s # <<>>

WhiteSpace == {" ", "\n", "\t"}

RECURSIVE trimStart(_)
trimStart(s) ==
  IF s # <<>> /\ Head(s) \in WhiteSpace THEN trimStart(Tail(s)) ELSE s

RECURSIVE trimEnd(_)
trimEnd(s) ==
  IF s # <<>> /\ s[Len(s)] \in WhiteSpace
    THEN trimEnd(SubSeq(s, 1, Len(s) - 1))
    ELSE s

trim(s) == trimEnd(trimStart(s))

UpperChars == <<"A","B","C","D","E","F","G","H","I","J","K","L","M",
                "N","O","P","Q","R","S","T","U","V","W","X","Y","Z">>
LowerChars == <<"a","b","c","d","e","f","g","h","i","j","k","l","m",
                "n","o","p","q","r","s","t","u","v","w","x","y","z">>

toLowerChar(c) ==
  IF \E i \in DOMAIN UpperChars : UpperChars[i] = c
    THEN LowerChars[CHOOSE i \in DOMAIN UpperChars : UpperChars[i] = c]
    ELSE c

RECURSIVE toLowerCase(_)
toLowerCase(s) ==
  IF s = <<>> THEN <<>> ELSE <<toLowerChar(Head(s))>> \o toLowerCase(Tail(s))

\* hay.includes(needle)
includes(hay, needle) ==
  \E i \in 0..(Len(hay) - Len(needle)) :
    SubSeq(hay, i + 1, i + Len(needle)) = needle

\* arr.join(sep)
RECURSIVE join(_, _)
join(arr, sep) ==
  IF arr = <<>> THEN <<>>
  ELSE IF Len(arr) = 1 THEN arr[1]
  ELSE arr[1] \o sep \o join(Tail(arr), sep)

DigitChars == <<"0","1","2","3","4","5","6","7","8","9">>

\* String(n) of a non-negative integer
RECURSIVE NumToString(_)
NumToString(n) ==
  IF n < 10 THEN <<DigitChars[n + 1]>>
  ELSE NumToString(n \div 10) \o <<DigitChars[(n % 10) + 1]>>

RECURSIVE padStart(_, _, _)
padStart(s, len, ch) == IF Len(s) >= len THEN s ELSE padStart(<<ch>> \o s, len, ch)

(***************************************************************************)
(* 1) Column configuration.                                                *)
(***************************************************************************)
COLUMN_MAP ==
  [ timestamp     |-> "Timestamp",
    date          |-> "Date of Meeting",
    student       |-> "Student Name (be consistent)",
    project       |-> "Discussed Project Title  (be consistent)",
    topic         |-> "Meeting Topic",
    subtopics     |-> "Subtopics / Agenda Items",
    my_inputs     |-> "Supervisor Inputs & Suggestions",
    link          |-> "Link to Additional Materials (Optional)",
    action_points |-> "Action Points" ]

\* COLUMN_MAP has no meeting_id entry: raw[COLUMN_MAP.meeting_id] reads the
\* property named by String(undefined)
COLUMN_MAP_meeting_id == "undefined"

DEFAULT_CSV_URL == "https://docs.google.com/spreadsheets/d/e/2PACX-1vR3iDeJ3NzOCT_0_YZ9fE8Io9uLm_rpnNhj38EQdSHNd9O8PtJeGY31otTwmztIPKkcaPilrjjpSwWR/pub?output=csv"

\* other headers a sheet may carry
HdrActionItems == "Action Items (for next week)"
HdrActionTodos == "ACTION  To - Dos"

\* the characters of a header name (TLA+ strings cannot be indexed)
HeaderChars(k) ==
  CASE k = "Timestamp" -> <<"T","i","m","e","s","t","a","m","p">>
    [] k = "Date of Meeting" -> <<"D","a","t","e"," ","o","f"," ","M","e","e","t","i","n","g">>
    [] k = "Student Name (be consistent)" -> <<"S","t","u","d","e","n","t"," ","N","a","m","e"," ","(","b","e"," ","c","o","n","s","i","s","t","e","n","t",")">>
    [] k = "Discussed Project Title  (be consistent)" -> <<"D","i","s","c","u","s","s","e","d"," ","P","r","o","j","e","c","t"," ","T","i","t","l","e"," "," ","(","b","e"," ","c","o","n","s","i","s","t","e","n","t",")">>
    [] k = "Meeting Topic" -> <<"M","e","e","t","i","n","g"," ","T","o","p","i","c">>
    [] k = "Subtopics / Agenda Items" -> <<"S","u","b","t","o","p","i","c","s"," ","/"," ","A","g","e","n","d","a"," ","I","t","e","m","s">>
    [] k = "Supervisor Inputs & Suggestions" -> <<"S","u","p","e","r","v","i","s","o","r"," ","I","n","p","u","t","s"," ","&"," ","S","u","g","g","e","s","t","i","o","n","s">>
    [] k = "Link to Additional Materials (Optional)" -> <<"L","i","n","k"," ","t","o"," ","A","d","d","i","t","i","o","n","a","l"," ","M","a","t","e","r","i","a","l","s"," ","(","O","p","t","i","o","n","a","l",")">>
    [] k = "Action Points" -> <<"A","c","t","i","o","n"," ","P","o","i","n","t","s">>
    [] k = "Action Items (for next week)" -> <<"A","c","t","i","o","n"," ","I","t","e","m","s"," ","(","f","o","r"," ","n","e","x","t"," ","w","e","e","k",")">>
    [] k = "ACTION  To - Dos" -> <<"A","C","T","I","O","N"," "," ","T","o"," ","-"," ","D","o","s">>

UnspecifiedProject == <<"U","n","s","p","e","c","i","f","i","e","d"," ","P","r","o","j","e","c","t">>
NoTopic == <<"(","N","o"," ","t","o","p","i","c",")">>
NoInputs == <<"(","N","o"," ","i","n","p","u","t","s",")">>
ALL == <<"A","L","L">>

(***************************************************************************)
(* 2) Helpers.                                                             *)
(***************************************************************************)
\* Object.prototype.hasOwnProperty.call(raw, name)
hasOwnProperty(raw, name) == \E i \in DOMAIN raw : raw[i].k = name

\* raw[name]
Get(raw, name) ==
  IF hasOwnProperty(raw, name)
    THEN Str(raw[CHOOSE i \in DOMAIN raw : raw[i].k = name].v)
    ELSE Undefined

\* Object.keys(raw)
ObjectKeys(raw) == [i \in DOMAIN raw |-> raw[i].k]

\* position of the first non-whitespace character at or after p (\s*)
RECURSIVE SkipSpace(_, _)
SkipSpace(s, p) ==
  IF p <= Len(s) /\ s[p] \in WhiteSpace THEN SkipSpace(s, p + 1) ELSE p

\* the literal lit occurs in s at position p
LitAt(s, p, lit) ==
  p + Len(lit) - 1 <= Len(s) /\ SubSeq(s, p, p + Len(lit) - 1) = lit

\* to\s*-?\s*do matched at position p
ToDoAt(s, p) ==
  /\ LitAt(s, p, <<"t","o">>)
  /\ LET a == SkipSpace(s, p + 2)
     IN \/ LitAt(s, a, <<"d","o">>)
        \/ LitAt(s, a, <<"-">>) /\ LitAt(s, SkipSpace(s, a + 1), <<"d","o">>)

\* /action\s*(points?|items?|to\s*-?\s*dos?|todos?)/i .test(k); the optional
\* trailing s of each alternative never decides a match
ActionRegex == "/action\\s*(points?|items?|to\\s*-?\\s*dos?|todos?)/i"

ActionRegexTest(k) ==
  LET s == toLowerCase(HeaderChars(k))
  IN \E p \in 1..Len(s) :
       /\ LitAt(s, p, <<"a","c","t","i","o","n">>)
       /\ LET b == SkipSpace(s, p + 6)
          IN \/ LitAt(s, b, <<"p","o","i","n","t">>)
             \/ LitAt(s, b, <<"i","t","e","m">>)
             \/ ToDoAt(s, b)
             \/ LitAt(s, b, <<"t","o","d","o">>)

RegexTest(regex, k) == regex = ActionRegex /\ ActionRegexTest(k)

\* pickColumn with a fault: it treats an empty preferred cell as missing
pickColumnTruthy(raw, preferredName, regex) ==
  IF Truthy(Get(raw, preferredName))
    THEN Get(raw, preferredName)
    ELSE LET keys == ObjectKeys(raw)
             hits == {i \in DOMAIN keys : RegexTest(regex, keys[i])}
         IN IF hits = {} THEN Undefined
            ELSE Get(raw, keys[CHOOSE i \in hits : \A j \in hits : i <= j])

pickColumn(raw, preferredName, regex) ==
  IF preferredName # "" /\ hasOwnProperty(raw, preferredName)
    THEN Get(raw, preferredName)
    ELSE LET keys == ObjectKeys(raw)
             hits == {i \in DOMAIN keys : RegexTest(regex, keys[i])}
         IN IF hits = {} THEN Undefined
            ELSE Get(raw, keys[CHOOSE i \in hits : \A j \in hits : i <= j])

(***************************************************************************)
(* Dates.  new Date(v) is the engine's free-form parser: it is tabulated   *)
(* on the date strings of the model (UTC environment); every other string  *)
(* is an Invalid Date.                                                     *)
(***************************************************************************)
Null == [null |-> TRUE]
MkDate(t, y, m, d) == [valid |-> TRUE, time |-> t, year |-> y, month |-> m, date |-> d]
InvalidDate == [valid |-> FALSE, time |-> 0, year |-> 0, month |-> 0, date |-> 0]

D_2025_01_10 == <<"2","0","2","5","-","0","1","-","1","0">>
D_2025_02_10 == <<"2","0","2","5","-","0","2","-","1","0">>
D_US_2025_01_10 == <<"1","/","1","0","/","2","0","2","5">>
D_US_2025_03_01 == <<"3","/","1","/","2","0","2","5">>
D_1969_12_31 == <<"1","9","6","9","-","1","2","-","3","1">>
D_TBD == <<"T","B","D">>
D_NA == <<"n","/","a">>

NewDate(v) ==
  CASE v = D_2025_01_10 -> MkDate(20098, 2025, 0, 10)
    [] v = D_2025_02_10 -> MkDate(20129, 2025, 1, 10)
    [] v = D_US_2025_01_10 -> MkDate(20098, 2025, 0, 10)
    [] v = D_US_2025_03_01 -> MkDate(20148, 2025, 2, 1)
    [] v = D_1969_12_31 -> MkDate(0 - 1, 1969, 11, 31)
    [] OTHER -> InvalidDate

\* parseDateLoose with a fault: it skips the isNaN check
parseDateLooseNoNaN(v) == IF ~Truthy(v) THEN Null ELSE NewDate(String(v))

parseDateLoose(v) ==
  IF ~Truthy(v) THEN Null
  ELSE LET d == NewDate(String(v))
       IN IF ~d.valid THEN Null ELSE d

toYMD(d) ==
  IF d = Null THEN <<>>
  ELSE LET y == d.year
           m == padStart(NumToString(d.month + 1), 2, "0")
           day == padStart(NumToString(d.date), 2, "0")
       IN NumToString(y) \o <<"-">> \o m \o <<"-">> \o day

ListDelims == {";", "\n"}

\* text.split(/[;\n]/g), cur being the piece under construction
RECURSIVE splitFrom(_, _)
splitFrom(s, cur) ==
  IF s = <<>> THEN <<cur>>
  ELSE IF Head(s) \in ListDelims
    THEN <<cur>> \o splitFrom(Tail(s), <<>>)
    ELSE splitFrom(Tail(s), Append(cur, Head(s)))

splitList(text) ==
  IF ~Truthy(text) THEN <<>>
  ELSE LET pieces == splitFrom(String(text), <<>>)
           trimmed == [i \in DOMAIN pieces |-> trim(pieces[i])]
       IN SelectSeq(trimmed, Boolean)

\* normalizeRecord with a fault: it reads every cell without a default
normalizeRecordNoDefaults(raw) ==
  LET dateRaw == Get(raw, COLUMN_MAP.date)
      date == parseDateLoose(dateRaw)
  IN [ meeting_id   |-> String(Get(raw, COLUMN_MAP_meeting_id)),
       date         |-> date,
       date_label   |-> String(dateRaw),
       student      |-> String(Get(raw, COLUMN_MAP.student)),
       project      |-> String(Get(raw, COLUMN_MAP.project)),
       topic        |-> String(Get(raw, COLUMN_MAP.topic)),
       subtopics    |-> splitList(Get(raw, COLUMN_MAP.subtopics)),
       my_inputs    |-> String(Get(raw, COLUMN_MAP.my_inputs)),
       link         |-> String(Get(raw, COLUMN_MAP.link)),
       action_items |-> splitList(Get(raw, COLUMN_MAP.action_points)),
       _raw         |-> raw ]

normalizeRecord(raw) ==
  LET dateRawPrimary == Get(raw, COLUMN_MAP.date)
      dateRawFallback == Get(raw, COLUMN_MAP.timestamp)
      dateRaw == Or(dateRawPrimary, dateRawFallback)
      date == parseDateLoose(dateRaw)
      actionRaw == Or(pickColumn(raw, COLUMN_MAP.action_points, ActionRegex), Str(<<>>))
      action_items == splitList(actionRaw)
  IN [ meeting_id   |-> String(Or(Get(raw, COLUMN_MAP_meeting_id), Str(<<>>))),
       date         |-> date,
       date_label   |-> IF date # Null THEN toYMD(date) ELSE String(Or(dateRaw, Str(<<>>))),
       student      |-> String(Or(Get(raw, COLUMN_MAP.student), Str(<<>>))),
       project      |-> String(Or(Get(raw, COLUMN_MAP.project), Str(UnspecifiedProject))),
       topic        |-> String(Or(Get(raw, COLUMN_MAP.topic), Str(NoTopic))),
       subtopics    |-> splitList(Or(Get(raw, COLUMN_MAP.subtopics), Str(<<>>))),
       my_inputs    |-> String(Or(Get(raw, COLUMN_MAP.my_inputs), Str(NoInputs))),
       link         |-> String(Or(Get(raw, COLUMN_MAP.link), Str(<<>>))),
       action_items |-> action_items,
       _raw         |-> raw ]

(***************************************************************************)
(* Sorting and grouping.                                                   *)
(***************************************************************************)
\* (a, b) => tb - ta, with ta = a.date ? a.date.getTime() : 0
compareDateDesc(a, b) ==
  LET ta == IF a.date # Null THEN a.date.time ELSE 0
      tb == IF b.date # Null THEN b.date.time ELSE 0
  IN tb - ta

\* Array.prototype.sort is stable: x goes after every element that does not
\* compare greater than it
RECURSIVE insertSorted(_, _)
insertSorted(arr, x) ==
  IF arr = <<>> THEN <<x>>
  ELSE IF compareDateDesc(Head(arr), x) <= 0
    THEN <<Head(arr)>> \o insertSorted(Tail(arr), x)
    ELSE <<x>> \o arr

RECURSIVE sortFrom(_, _)
sortFrom(arr, acc) ==
  IF arr = <<>> THEN acc ELSE sortFrom(Tail(arr), insertSorted(acc, Head(arr)))

\* arr.sort((a, b) => tb - ta)
sortDateDesc(arr) == sortFrom(arr, <<>>)

\* the Map after records.forEach: entries in insertion order
RECURSIVE groupInto(_, _)
groupInto(records, map) ==
  IF records = <<>> THEN map
  ELSE LET r == Head(records)
           key == IF Boolean(r.project) THEN r.project ELSE UnspecifiedProject
           has == \E i \in DOMAIN map : map[i].k = key
           withKey == IF has THEN map ELSE Append(map, [k |-> key, arr |-> <<>>])
           pushed == [i \in DOMAIN withKey |->
                        IF withKey[i].k = key
                          THEN [withKey[i] EXCEPT !.arr = Append(@, r)]
                          ELSE withKey[i]]
       IN groupInto(Tail(records), pushed)

\* groupByProject with a fault: it files every record under the sentinel
groupByProjectOneGroup(records) ==
  IF records = <<>> THEN <<>>
  ELSE <<[k |-> UnspecifiedProject, arr |-> sortDateDesc(records)]>>

groupByProject(records) ==
  LET map == groupInto(records, <<>>)
  IN [i \in DOMAIN map |-> [map[i] EXCEPT !.arr = sortDateDesc(@)]]

(***************************************************************************)
(* 4) The App component: derived views (useMemo).                          *)
(***************************************************************************)
records == [i \in DOMAIN rawRows |-> normalizeRecord(rawRows[i])]

\* r.date < df on Date objects: a comparison of time values, false when
\* either is NaN
DateLess(a, b) == a.valid /\ b.valid /\ a.time < b.time

\* the hay of the free-text search
hayOf(r) ==
  toLowerCase(join(<<r.student, r.project, r.topic, join(r.subtopics, <<" ">>), r.my_inputs>>,
                   <<" ", "\n", " ">>))

\* keepRecord with a fault: it applies the date bounds to absent dates too
keepRecordDatesRequired(r, df, dt, ql) ==
  /\ ~(projectFilter # ALL /\ r.project # projectFilter)
  /\ ~(studentFilter # ALL /\ r.student # studentFilter)
  /\ ~(df # Null /\ (r.date = Null \/ DateLess(r.date, df)))
  /\ ~(dt # Null /\ (r.date = Null \/ DateLess(dt, r.date)))
  /\ ~(ql # <<>> /\ ~includes(hayOf(r), ql))

\* keepRecord with a fault: it forgets the student selector
keepRecordNoStudent(r, df, dt, ql) ==
  /\ ~(projectFilter # ALL /\ r.project # projectFilter)
  /\ ~(df # Null /\ r.date # Null /\ DateLess(r.date, df))
  /\ ~(dt # Null /\ r.date # Null /\ DateLess(dt, r.date))
  /\ ~(ql # <<>> /\ ~includes(hayOf(r), ql))

\* the callback of records.filter: each early return false, then true
keepRecord(r, df, dt, ql) ==
  IF projectFilter # ALL /\ r.project # projectFilter THEN FALSE
  ELSE IF studentFilter # ALL /\ r.student # studentFilter THEN FALSE
  ELSE IF df # Null /\ r.date # Null /\ DateLess(r.date, df) THEN FALSE
  ELSE IF dt # Null /\ r.date # Null /\ DateLess(dt, r.date) THEN FALSE
  ELSE IF ql # <<>> /\ ~includes(hayOf(r), ql) THEN FALSE
  ELSE TRUE

filteredRecords ==
  LET df == IF dateFrom # <<>> THEN NewDate(dateFrom) ELSE Null
      dt == IF dateTo # <<>> THEN NewDate(dateTo) ELSE Null
      ql == toLowerCase(trim(q))
      keep(r) == keepRecord(r, df, dt, ql)
  IN SelectSeq(records, keep)

sortedRecords == sortDateDesc(filteredRecords)

(***************************************************************************)
(* State setters shared by the load handlers.                              *)
(***************************************************************************)
\* err.message || dflt
ErrMessage(message, dflt) == IF message # "" THEN message ELSE dflt

\* res.data || []
DataOrEmpty(res) == IF res.def THEN res.data ELSE <<>>

\* RowsAfterComplete with a fault: it merges into the rows already shown
RowsAfterCompleteMerge(res) == rawRows \o DataOrEmpty(res)

\* setRawRows(res.data || [])
RowsAfterComplete(res) == DataOrEmpty(res)

\* RowsAfterFailure with a fault: it clears the rows shown
RowsAfterFailureClear == <<>>

\* the error paths call no setRawRows
RowsAfterFailure == rawRows

DoneLoad == [pc |-> "done", snap |-> <<>>, clean |-> TRUE]
NoEvent == [type |-> "other", before |-> <<>>, snap |-> <<>>, clean |-> TRUE]

InFlight == {i \in DOMAIN loads : loads[i].pc # "done"}

\* the other loads see that a parse completed while they were outstanding
Touched(i) ==
  [j \in DOMAIN loads |->
     IF j = i THEN DoneLoad
     ELSE IF loads[j].pc # "done" THEN [loads[j] EXCEPT !.clean = FALSE]
     ELSE loads[j]]

\* setLoading(true); setError(""); and the request is outstanding at pc
StartLoad(pc) ==
  /\ Len(loads) < MaxLoads
  /\ loading' = TRUE
  /\ error' = ""
  /\ loads' = Append(loads, [pc |-> pc, snap |-> rawRows, clean |-> TRUE])
  /\ lastEvent' = NoEvent
  /\ UNCHANGED <<csvUrl, rawRows, lastParsed, seqState>>

\* complete: (res) => { setRawRows(res.data || []); setLoading(false); }
Complete(i, res) ==
  /\ rawRows' = RowsAfterComplete(res)
  /\ loading' = FALSE
  /\ loads' = Touched(i)
  /\ lastParsed' = [some |-> TRUE, res |-> res]
  /\ lastEvent' = NoEvent
  /\ seqState' = [rawRows |-> DataOrEmpty(res), error |-> "", loading |-> FALSE]
  /\ UNCHANGED <<csvUrl, error>>

\* setError(message || dflt); setLoading(false);
Fail(i, message, dflt) ==
  /\ error' = ErrMessage(message, dflt)
  /\ loading' = FALSE
  /\ rawRows' = RowsAfterFailure
  /\ loads' = [loads EXCEPT ![i] = DoneLoad]
  /\ lastEvent' = [type |-> "failed", before |-> rawRows,
                   snap |-> loads[i].snap, clean |-> loads[i].clean]
  /\ seqState' = [rawRows |-> seqState.rawRows,
                  error |-> IF message # "" THEN message ELSE dflt,
                  loading |-> FALSE]
  /\ UNCHANGED <<csvUrl, lastParsed>>

(***************************************************************************)
(* Inputs of the load handlers.                                            *)
(***************************************************************************)
LoadRowA == <<[k |-> COLUMN_MAP.topic, v |-> <<"a">>]>>
LoadRowB == <<[k |-> COLUMN_MAP.topic, v |-> <<"b">>]>>
LoadRowC == <<[k |-> COLUMN_MAP.topic, v |-> <<"c">>]>>

\* res of a Papa.parse completion: res.data may be missing
ParseResults ==
  { [def |-> FALSE, data |-> <<>>],
    [def |-> TRUE, data |-> <<LoadRowA>>],
    [def |-> TRUE, data |-> <<LoadRowB, LoadRowC>>] }

HttpStatuses == {404, 500}
HttpMessage(status) == CASE status = 404 -> "HTTP 404" [] status = 500 -> "HTTP 500"
TransportMessages == {"", "NetworkError"}
ParseMessages == {"", "bad csv"}

(***************************************************************************)
(* The load handlers.                                                      *)
(***************************************************************************)
\* async function loadFromUrl(), up to the await of fetch
loadFromUrlCall ==
  IF csvUrl = ""
    THEN /\ error' = "Please enter a CSV URL."
         /\ lastEvent' = NoEvent
         /\ seqState' = [seqState EXCEPT !.error = "Please enter a CSV URL."]
         /\ UNCHANGED <<csvUrl, rawRows, loading, loads, lastParsed>>
    ELSE StartLoad("fetch")

\* useEffect(() => { if (DEFAULT_CSV_URL) loadFromUrl(); }, [])
Mount ==
  /\ ~mounted
  /\ mounted' = TRUE
  /\ IF DEFAULT_CSV_URL # ""
       THEN loadFromUrlCall
       ELSE UNCHANGED <<appState, loads, lastParsed, lastEvent, seqState>>
  /\ UNCHANGED filterState

LoadFromUrl ==
  /\ mounted
  /\ loadFromUrlCall
  /\ UNCHANGED <<mounted, filterState>>

\* fetch rejects (transport error): the catch block
FetchRejects ==
  \E i \in InFlight, m \in TransportMessages :
    /\ loads[i].pc = "fetch"
    /\ Fail(i, m, "Failed to fetch CSV")
    /\ UNCHANGED <<mounted, filterState>>

\* fetch resolves with !resp.ok: throw new Error(`HTTP ${resp.status}`)
FetchNotOk ==
  \E i \in InFlight, status \in HttpStatuses :
    /\ loads[i].pc = "fetch"
    /\ Fail(i, HttpMessage(status), "Failed to fetch CSV")
    /\ UNCHANGED <<mounted, filterState>>

\* fetch resolves with resp.ok: await resp.text()
FetchOk ==
  \E i \in InFlight :
    /\ loads[i].pc = "fetch"
    /\ loads' = [loads EXCEPT ![i].pc = "text"]
    /\ lastEvent' = NoEvent
    /\ UNCHANGED <<appState, mounted, lastParsed, seqState, filterState>>

\* resp.text() rejects (or Papa.parse throws): the catch block
TextRejects ==
  \E i \in InFlight, m \in TransportMessages :
    /\ loads[i].pc = "text"
    /\ Fail(i, m, "Failed to fetch CSV")
    /\ UNCHANGED <<mounted, filterState>>

\* resp.text() resolves; Papa.parse(text) calls complete
UrlParseComplete ==
  \E i \in InFlight, res \in ParseResults :
    /\ loads[i].pc = "text"
    /\ Complete(i, res)
    /\ UNCHANGED <<mounted, filterState>>

\* resp.text() resolves; Papa.parse(text) calls error
UrlParseError ==
  \E i \in InFlight, m \in ParseMessages :
    /\ loads[i].pc = "text"
    /\ Fail(i, m, "Failed to parse CSV from URL")
    /\ UNCHANGED <<mounted, filterState>>

\* function handleCsvFile(e)
HandleCsvFile ==
  \E hasFile \in BOOLEAN :
    /\ mounted
    /\ IF ~hasFile
         THEN UNCHANGED <<appState, loads, lastParsed, seqState>> /\ lastEvent' = NoEvent
         ELSE StartLoad("file")
    /\ UNCHANGED <<mounted, filterState>>

FileParseComplete ==
  \E i \in InFlight, res \in ParseResults :
    /\ loads[i].pc = "file"
    /\ Complete(i, res)
    /\ UNCHANGED <<mounted, filterState>>

FileParseError ==
  \E i \in InFlight, m \in ParseMessages :
    /\ loads[i].pc = "file"
    /\ Fail(i, m, "Failed to parse CSV")
    /\ UNCHANGED <<mounted, filterState>>

Init ==
  /\ csvUrl = DEFAULT_CSV_URL
  /\ rawRows = <<>>
  /\ error = ""
  /\ loading = FALSE
  /\ projectFilter = ALL
  /\ studentFilter = ALL
  /\ dateFrom = <<>>
  /\ dateTo = <<>>
  /\ q = <<>>
  /\ mounted = FALSE
  /\ loads = <<>>
  /\ lastParsed = [some |-> FALSE, res |-> [def |-> FALSE, data |-> <<>>]]
  /\ lastEvent = NoEvent
  /\ seqState = [rawRows |-> <<>>, error |-> "", loading |-> FALSE]

Next ==
  \/ Mount
  \/ LoadFromUrl
  \/ FetchRejects
  \/ FetchNotOk
  \/ FetchOk
  \/ TextRejects
  \/ UrlParseComplete
  \/ UrlParseError
  \/ HandleCsvFile
  \/ FileParseComplete
  \/ FileParseError

Spec == Init /\ [][Next]_vars

(***************************************************************************)
(* The filter controls.                                                    *)
(***************************************************************************)
\* Array.from(set).sort() is not modelled: only membership in the option
\* lists matters to the selectors
projects == {ALL} \cup {records[i].project : i \in {j \in DOMAIN records : Boolean(records[j].project)}}
students == {ALL} \cup {records[i].student : i \in {j \in DOMAIN records : Boolean(records[j].student)}}

DateFromInputs == {<<>>, D_2025_02_10}
DateToInputs == {<<>>, D_2025_01_10}
SearchInputs == {<<>>, <<" ">>, <<"B","O"," ">>}

\* <select value={projectFilter} onChange={(e) => setProjectFilter(e.target.value)}>
SetProjectFilter ==
  \E p \in projects :
    /\ mounted
    /\ projectFilter' = p
    /\ UNCHANGED <<appState, loadState, studentFilter, dateFrom, dateTo, q>>

SetStudentFilter ==
  \E s \in students :
    /\ mounted
    /\ studentFilter' = s
    /\ UNCHANGED <<appState, loadState, projectFilter, dateFrom, dateTo, q>>

SetDateFrom ==
  \E d \in DateFromInputs :
    /\ mounted
    /\ dateFrom' = d
    /\ UNCHANGED <<appState, loadState, projectFilter, studentFilter, dateTo, q>>

SetDateTo ==
  \E d \in DateToInputs :
    /\ mounted
    /\ dateTo' = d
    /\ UNCHANGED <<appState, loadState, projectFilter, studentFilter, dateFrom, q>>

SetQ ==
  \E s \in SearchInputs :
    /\ mounted
    /\ q' = s
    /\ UNCHANGED <<appState, loadState, projectFilter, studentFilter, dateFrom, dateTo>>

resetFilters ==
  /\ mounted
  /\ projectFilter' = ALL
  /\ studentFilter' = ALL
  /\ dateFrom' = <<>>
  /\ dateTo' = <<>>
  /\ q' = <<>>
  /\ UNCHANGED <<appState, loadState>>

(***************************************************************************)
(* Sheets.  The three view specifications start where the mount's fetch    *)
(* has resolved and its text is awaited; the parse then completes with a   *)
(* sheet drawn from the specification's universe.                          *)
(***************************************************************************)
SeqsUpTo(S, n) == UNION {[1..k -> S] : k \in 0..n}

Cell(k, v) == [k |-> k, v |-> v]

ViewRow(d, s, p) ==
  << Cell(COLUMN_MAP.date, d), Cell(COLUMN_MAP.student, s),
     Cell(COLUMN_MAP.project, p), Cell(COLUMN_MAP.subtopics, <<"x",";"," ","y">>),
     Cell(COLUMN_MAP.action_points, <<"t">>) >>

TextAwaited ==
  /\ csvUrl = DEFAULT_CSV_URL
  /\ rawRows = <<>>
  /\ error = ""
  /\ loading = TRUE
  /\ projectFilter = ALL
  /\ studentFilter = ALL
  /\ dateFrom = <<>>
  /\ dateTo = <<>>
  /\ q = <<>>
  /\ mounted = TRUE
  /\ loads = <<[pc |-> "text", snap |-> <<>>, clean |-> TRUE]>>
  /\ lastParsed = [some |-> FALSE, res |-> [def |-> FALSE, data |-> <<>>]]
  /\ lastEvent = NoEvent
  /\ seqState = [rawRows |-> <<>>, error |-> "", loading |-> FALSE]

\* resp.text() resolves; Papa.parse(text) calls complete with a sheet of sheets
ParseCompleteOf(sheets) ==
  \E i \in InFlight, data \in sheets :
    /\ loads[i].pc = "text"
    /\ Complete(i, [def |-> TRUE, data |-> data])
    /\ UNCHANGED <<mounted, filterState>>

(***************************************************************************)
(* The filter specification: a sheet of up to MaxFilterRows rows, and the  *)
(* user works the filter controls.                                         *)
(***************************************************************************)
FilterRows ==
  { ViewRow(d, sp[1], sp[2]) :
      d \in {<<>>, D_2025_01_10, D_2025_02_10},
      sp \in {<<<<"a","l">>, <<"p","a">>>>, <<<<"B","o">>, <<>>>>} }

FilterParseComplete == ParseCompleteOf(SeqsUpTo(FilterRows, MaxFilterRows))

NextFilter ==
  \/ FilterParseComplete
  \/ SetProjectFilter
  \/ SetStudentFilter
  \/ SetDateFrom
  \/ SetDateTo
  \/ SetQ
  \/ resetFilters

SpecFilter == TextAwaited /\ [][NextFilter]_vars

(***************************************************************************)
(* The sorting specification: a sheet of up to MaxRows rows.               *)
(***************************************************************************)
SortRows ==
  { ViewRow(d, sp[1], sp[2]) :
      d \in {<<>>, D_2025_01_10, D_2025_02_10, D_1969_12_31},
      sp \in {<<<<"a","l">>, <<"p","a">>>>, <<<<"B","o">>, <<"p","a">>>>, <<<<"a","l">>, <<>>>>} }

SortParseComplete == ParseCompleteOf(SeqsUpTo(SortRows, MaxRows))

NextSort == SortParseComplete

SpecSort == TextAwaited /\ [][NextSort]_vars

(***************************************************************************)
(* The normaliser specification: a sheet of one row whose configured       *)
(* columns are each missing, empty or filled, followed by up to            *)
(* MaxActionCols columns named like action columns.                        *)
(***************************************************************************)
\* the property of a column: none when the row has no such key
Prop(k, c) == IF c.def THEN <<Cell(k, c.s)>> ELSE <<>>

ActionHeaders == {COLUMN_MAP.action_points, HdrActionItems, HdrActionTodos}

\* the filled cell of each action column, so that the column read shows
ActionText(k) ==
  CASE k = COLUMN_MAP.action_points -> <<"p",";"," ","q">>
    [] k = HdrActionItems -> <<"i">>
    [] k = HdrActionTodos -> <<"t">>

ActionCols ==
  { cols \in SeqsUpTo({Cell(k, v) : k \in ActionHeaders, v \in {<<>>, <<"?">>}}, MaxActionCols) :
      \A i, j \in DOMAIN cols : i # j => cols[i].k # cols[j].k }

\* the columns with their filled cells put in
Filled(cols) ==
  [i \in DOMAIN cols |-> IF cols[i].v = <<>> THEN cols[i] ELSE Cell(cols[i].k, ActionText(cols[i].k))]

NormRows ==
  { Prop(COLUMN_MAP.timestamp, ts) \o Prop(COLUMN_MAP.date, d)
      \o Prop(COLUMN_MAP.project, p) \o Prop(COLUMN_MAP.topic, t)
      \o Prop(COLUMN_MAP.subtopics, st) \o Prop(COLUMN_MAP.my_inputs, mi) \o Filled(acts) :
      ts \in {Undefined, Str(D_US_2025_03_01), Str(D_NA)},
      d \in {Undefined, Str(<<>>), Str(D_US_2025_01_10), Str(D_TBD)},
      p \in {Undefined, Str(<<>>), Str(<<"p","a">>)},
      t \in {Undefined, Str(<<"k">>)},
      st \in {Undefined, Str(<<"A",";"," ","B",";","\n","C">>)},
      mi \in {Str(<<>>), Str(<<"o","k">>)},
      acts \in ActionCols }

NormParseComplete == ParseCompleteOf({<<r>> : r \in NormRows})

NextNorm == NormParseComplete

SpecNorm == TextAwaited /\ [][NextNorm]_vars

(***************************************************************************)
(* Properties.                                                             *)
(***************************************************************************)
Range(s) == {s[i] : i \in DOMAIN s}
Count(s, x) == Cardinality({i \in DOMAIN s : s[i] = x})
IsSeq(s) == DOMAIN s = 1..Len(s)

\* C1 as stated: after a load fails, rawRows is exactly what it was when
\* that load started, error is a non-empty message and loading is false.
FailedLoadRestoresStartRows ==
  lastEvent.type = "failed" =>
    /\ rawRows = lastEvent.snap
    /\ error # ""
    /\ loading = FALSE

\* C1 (amended): a failing load writes no rows. After the failure rawRows is
\* exactly what it was just before the failure was reported, which is what it
\* was when the load started unless another load's parse completed in
\* between; error is a non-empty message and loading is false.
FailedLoadAppliesNoData ==
  lastEvent.type = "failed" =>
    /\ rawRows = lastEvent.before
    /\ lastEvent.clean => rawRows = lastEvent.snap
    /\ error # ""
    /\ loading = FALSE

\* a load started over loaded rows has failed, and the rows are still shown
FailedLoadAppliesNoDataWitness ==
  /\ lastEvent.type = "failed"
  /\ lastEvent.clean
  /\ lastEvent.snap # <<>>
  /\ rawRows = lastEvent.snap

\* C2: rawRows is always the initial empty set or the complete row set of
\* the payload whose parse completed most recently, never a mixture.
RawRowsAreLastParsedPayload ==
  IF lastParsed.some
    THEN rawRows = (IF lastParsed.res.def THEN lastParsed.res.data ELSE <<>>)
    ELSE rawRows = <<>>

\* a second payload has replaced the first while a load started in between
\* is still outstanding
RawRowsAreLastParsedPayloadWitness ==
  /\ rawRows = <<LoadRowB, LoadRowC>>
  /\ \E i \in InFlight : loads[i].snap = <<LoadRowA>> /\ ~loads[i].clean

\* C10 as stated: once no load is outstanding, rawRows, error and loading
\* are what the loads would have left had they run one after the other in
\* the order in which they finished.
OverlappingLoadsInconsequential ==
  InFlight = {} =>
    /\ rawRows = seqState.rawRows
    /\ error = seqState.error
    /\ loading = seqState.loading

(***************************************************************************)
(* The predicates of the filter specification, one per dimension.          *)
(***************************************************************************)
PassProject(r) == projectFilter = ALL \/ r.project = projectFilter
PassStudent(r) == studentFilter = ALL \/ r.student = studentFilter
DroppedByFrom(r) ==
  dateFrom # <<>> /\ r.date # Null /\ r.date.time < NewDate(dateFrom).time
DroppedByTo(r) ==
  dateTo # <<>> /\ r.date # Null /\ r.date.time > NewDate(dateTo).time
PassQuery(r) ==
  LET needle == toLowerCase(trim(q))
  IN needle = <<>> \/ includes(hayOf(r), needle)
PassAll(r) ==
  PassProject(r) /\ PassStudent(r) /\ ~DroppedByFrom(r) /\ ~DroppedByTo(r) /\ PassQuery(r)

\* shown holds the records of all that pass every predicate, and no other
ExactlyThePassing(all, shown) ==
  /\ \A i \in DOMAIN shown : PassAll(shown[i])
  /\ \A i \in DOMAIN all :
       PassAll(all[i]) => Count(shown, all[i]) = Count(all, all[i])
  /\ Len(shown) = Cardinality({i \in DOMAIN all : PassAll(all[i])})

\* C3: filteredRecords holds exactly the records that satisfy every active
\* predicate at once: none that fails one of them, and all that satisfy all.
FilterIsConjunction == ExactlyThePassing(records, filteredRecords)

\* two selectors are active; one record satisfies both and is kept, another
\* satisfies the student selector alone and is excluded
FilterIsConjunctionWitness ==
  /\ studentFilter # ALL
  /\ dateFrom # <<>>
  /\ Len(records) = 2
  /\ Len(filteredRecords) = 1
  /\ \E i \in DOMAIN records :
       PassStudent(records[i]) /\ DroppedByFrom(records[i])

\* the date bounds as they apply to the records the other predicates admit
DateBoundsApplied(all, shown) ==
  \A i \in DOMAIN all :
    LET r == all[i]
        kept == r \in Range(shown)
    IN (PassProject(r) /\ PassStudent(r) /\ PassQuery(r)) =>
         /\ r.date = Null => kept
         /\ r.date # Null =>
              (kept <=> ~(\/ dateFrom # <<>> /\ r.date.time < NewDate(dateFrom).time
                          \/ dateTo # <<>> /\ r.date.time > NewDate(dateTo).time))

\* C4: among the records the other predicates admit, one with an absent date
\* is kept whatever the two bounds are, and a dated one is dropped exactly
\* when it is strictly earlier than date-from or strictly later than date-to.
AbsentDateExempt == DateBoundsApplied(records, filteredRecords)

\* the bounds exclude every dated record, one is excluded, and the record
\* without a date is the one shown
AbsentDateExemptWitness ==
  /\ dateFrom = D_2025_02_10
  /\ dateTo = D_2025_01_10
  /\ Len(records) = 2
  /\ \E i \in DOMAIN records : records[i].date # Null
  /\ Len(filteredRecords) = 1
  /\ filteredRecords[1].date = Null

(***************************************************************************)
(* Grouping and sorting.                                                   *)
(***************************************************************************)
\* G groups R by project: one group per project value, each record in the
\* group of its project as often as it occurs, dated records newest first
Partitions(G, R) ==
  /\ \A i, j \in DOMAIN G : i # j => G[i].k # G[j].k
  /\ \A i \in DOMAIN G : \A x \in Range(G[i].arr) : x.project = G[i].k
  /\ \A n \in DOMAIN R :
       \E i \in DOMAIN G :
         /\ G[i].k = R[n].project
         /\ Count(G[i].arr, R[n]) = Count(R, R[n])
  /\ \A i \in DOMAIN G :
       Len(G[i].arr) = Cardinality({n \in DOMAIN R : R[n].project = G[i].k})
  /\ \A i \in DOMAIN G : \A a, b \in DOMAIN G[i].arr :
       (a < b /\ G[i].arr[a].date # Null /\ G[i].arr[b].date # Null)
         => G[i].arr[a].date.time >= G[i].arr[b].date.time

\* C5: groupByProject partitions its input by the project value, drops
\* nothing, mixes no projects, and orders each group newest first.
GroupsPartitionRecords == Partitions(groupByProject(records), records)

\* the sheet has a named project whose records came oldest first and a
\* record without a project
GroupsPartitionRecordsWitness ==
  LET G == groupByProject(records)
  IN /\ Len(G) = 2
     /\ \E i \in DOMAIN G : G[i].k = UnspecifiedProject
     /\ \E a, b \in DOMAIN records :
          /\ a < b
          /\ records[a].project = records[b].project
          /\ records[a].date # Null /\ records[b].date # Null
          /\ records[a].date.time < records[b].date.time
          /\ records[a].date.time > 0

\* arr is in the order the claim describes: no record without a date before
\* a dated one, and records that tie keep the order they had in src
AbsentLastAndStable(arr, src) ==
  \A a, b \in DOMAIN arr :
    a < b =>
      /\ ~(arr[a].date = Null /\ arr[b].date # Null)
      /\ ((arr[a].date = Null /\ arr[b].date = Null)
            \/ (arr[a].date # Null /\ arr[b].date # Null
                  /\ arr[a].date.time = arr[b].date.time))
           => \E i, j \in DOMAIN src : i <= j /\ src[i] = arr[a] /\ src[j] = arr[b]

\* C6 as stated: in every group of groupByProject and in sortedRecords, every
\* record with an absent date comes after all dated records, whatever their
\* dates, and records with absent dates or equal timestamps keep input order.
AbsentDatesSortLast ==
  /\ AbsentLastAndStable(sortedRecords, filteredRecords)
  /\ LET G == groupByProject(records)
     IN \A i \in DOMAIN G : AbsentLastAndStable(G[i].arr, records)

(***************************************************************************)
(* The normaliser.                                                         *)
(***************************************************************************)
\* the cell of header k in row raw is present and not empty
HasValue(raw, k) == \E i \in DOMAIN raw : raw[i].k = k /\ raw[i].v # <<>>
CellOf(raw, k) == raw[CHOOSE i \in DOMAIN raw : raw[i].k = k].v

\* r carries the cells of raw, or the defaults where raw has none
DefaultsApplied(raw, r) ==
       /\ r.project = (IF HasValue(raw, COLUMN_MAP.project)
                         THEN CellOf(raw, COLUMN_MAP.project)
                         ELSE <<"U","n","s","p","e","c","i","f","i","e","d"," ","P","r","o","j","e","c","t">>)
       /\ r.topic = (IF HasValue(raw, COLUMN_MAP.topic)
                       THEN CellOf(raw, COLUMN_MAP.topic)
                       ELSE <<"(","N","o"," ","t","o","p","i","c",")">>)
       /\ r.my_inputs = (IF HasValue(raw, COLUMN_MAP.my_inputs)
                           THEN CellOf(raw, COLUMN_MAP.my_inputs)
                           ELSE <<"(","N","o"," ","i","n","p","u","t","s",")">>)
       /\ r.topic # <<>> /\ r.my_inputs # <<>> /\ r.project # <<>>
       /\ IsSeq(r.subtopics) /\ IsSeq(r.action_items)
       /\ \A i \in DOMAIN r.subtopics : r.subtopics[i] # <<>>
       /\ IsSeq(r.date_label)

\* C7: normalizeRecord yields, for every row, the project cell or the
\* sentinel, non-empty topic and my_inputs (the sentinels when absent),
\* sequences for subtopics and action_items, and a string for date_label.
NormalizeTotalWithDefaults ==
  \A n \in DOMAIN rawRows : DefaultsApplied(rawRows[n], records[n])

\* a row without project, topic, subtopics and dates, its inputs cell empty
NormalizeTotalWithDefaultsWitness ==
  /\ Len(rawRows) = 1
  /\ ~hasOwnProperty(rawRows[1], COLUMN_MAP.project)
  /\ ~hasOwnProperty(rawRows[1], COLUMN_MAP.topic)
  /\ ~hasOwnProperty(rawRows[1], COLUMN_MAP.subtopics)
  /\ ~hasOwnProperty(rawRows[1], COLUMN_MAP.date)
  /\ ~hasOwnProperty(rawRows[1], COLUMN_MAP.timestamp)
  /\ ~HasValue(rawRows[1], COLUMN_MAP.my_inputs)
  /\ records[1].project = UnspecifiedProject
  /\ records[1].date = Null

\* the rows' headers that match the action pattern, by position
ActionMatches(raw) == {i \in DOMAIN raw : ActionRegexTest(raw[i].k)}
FirstOf(S) == CHOOSE i \in S : \A j \in S : i <= j
Pieces(text) == splitList(Str(text))

\* action_items as the claim's wording gives them for row raw
TwoTierByValue(raw, items, hits) ==
  /\ HasValue(raw, COLUMN_MAP.action_points)
       => items = Pieces(CellOf(raw, COLUMN_MAP.action_points))
  /\ (~HasValue(raw, COLUMN_MAP.action_points) /\ hits # {})
       => items = Pieces(raw[FirstOf(hits)].v)
  /\ items = <<>>
       => /\ ~HasValue(raw, COLUMN_MAP.action_points)
          /\ hits # {} => raw[FirstOf(hits)].v = <<>>

\* C8 as stated: a value under the exact configured header is split into
\* action_items; if the exact header yields nothing, action_items is the
\* split value of the first header, in header order, that matches the
\* pattern; action_items is empty only when neither tier yields a value.
ActionItemsTwoTierByValue ==
  \A n \in DOMAIN rawRows :
    TwoTierByValue(rawRows[n], records[n].action_items, ActionMatches(rawRows[n]))

\* action_items decided by the presence of the exact header in row raw
TwoTierByHeader(raw, items, hits) ==
  /\ (\E i \in DOMAIN raw : raw[i].k = COLUMN_MAP.action_points)
       => items = Pieces(CellOf(raw, COLUMN_MAP.action_points))
  /\ ((\A i \in DOMAIN raw : raw[i].k # COLUMN_MAP.action_points) /\ hits # {})
       => items = Pieces(raw[FirstOf(hits)].v)
  /\ ((\A i \in DOMAIN raw : raw[i].k # COLUMN_MAP.action_points) /\ hits = {})
       => items = <<>>

\* C8 (amended): if the row has the exact configured header at all, even
\* with an empty cell, that cell is split into action_items and no other
\* header is consulted; only if the row lacks that header is action_items the
\* split value of the first header, in header order, that matches the
\* pattern; with neither, action_items is empty.
ActionItemsTwoTierByHeader ==
  \A n \in DOMAIN rawRows :
    TwoTierByHeader(rawRows[n], records[n].action_items, ActionMatches(rawRows[n]))

\* the exact header is there with an empty cell after a filled column named
\* "Action Items (for next week)", and action_items is empty
ActionItemsTwoTierByHeaderWitness ==
  /\ Len(rawRows) = 1
  /\ \E i, j \in DOMAIN rawRows[1] :
       /\ i < j
       /\ rawRows[1][i] = Cell(HdrActionItems, <<"i">>)
       /\ rawRows[1][j] = Cell(COLUMN_MAP.action_points, <<>>)
  /\ records[1].action_items = <<>>

\* the year-month-day form of the dates of the model
YMDForm(d) ==
  CASE d.time = 20098 -> <<"2","0","2","5","-","0","1","-","1","0">>
    [] d.time = 20129 -> <<"2","0","2","5","-","0","2","-","1","0">>
    [] d.time = 20148 -> <<"2","0","2","5","-","0","3","-","0","1">>
    [] d.time = 0 - 1 -> <<"1","9","6","9","-","1","2","-","3","1">>

\* v is a date string the engine parses
Parses(v) == v # <<>> /\ NewDate(v).valid

\* the raw date value of row raw: the primary cell, else the timestamp cell
RawDateValue(raw) ==
  IF HasValue(raw, COLUMN_MAP.date) THEN CellOf(raw, COLUMN_MAP.date)
  ELSE IF HasValue(raw, COLUMN_MAP.timestamp) THEN CellOf(raw, COLUMN_MAP.timestamp)
  ELSE <<>>

\* date and date_label of r as resolved from row raw, whose raw value is value
DateResolved(raw, r, value) ==
  /\ (~(HasValue(raw, COLUMN_MAP.date) /\ Parses(CellOf(raw, COLUMN_MAP.date)))
       /\ ~(HasValue(raw, COLUMN_MAP.timestamp) /\ Parses(CellOf(raw, COLUMN_MAP.timestamp))))
     => r.date = Null
  /\ Parses(value) =>
       /\ r.date # Null
       /\ r.date.time = NewDate(value).time
       /\ r.date_label = YMDForm(r.date)
  /\ ~Parses(value) => r.date = Null /\ r.date_label = value

\* C9: the raw date value is the primary date field when it is non-empty and
\* otherwise the timestamp field; date is absent if neither field parses;
\* when the raw value parses, date_label is the year-month-day form of date,
\* and when it does not, date is absent and date_label is the raw string
\* verbatim (the empty string when both fields are absent).
DateResolution ==
  \A n \in DOMAIN rawRows :
    DateResolved(rawRows[n], records[n], RawDateValue(rawRows[n]))

\* the primary date cell is empty and the timestamp parses: the label is the
\* year-month-day form of the timestamp
DateResolutionWitness ==
  /\ Len(rawRows) = 1
  /\ hasOwnProperty(rawRows[1], COLUMN_MAP.date)
  /\ ~HasValue(rawRows[1], COLUMN_MAP.date)
  /\ HasValue(rawRows[1], COLUMN_MAP.timestamp)
  /\ records[1].date # Null
  /\ records[1].date_label = <<"2","0","2","5","-","0","3","-","0","1">>

====
